---- MODULE Spec2Model ----
(***************************************************************************)
(* xkcdpwgen (project3/xkcdpwgen-source/src/main.rs): command-line         *)
(* argument parsing (Config::new), the passphrase assembly in run, and the *)
(* exits of main, as a state machine.                                      *)
(*                                                                         *)
(* Strings are sequences of one-character strings; an argument token is a  *)
(* TLA+ string.  args[1] is the path of the binary (args[0] in the source),*)
(* so the source's 0-based args[i] is args[i+1] here.                      *)
(***************************************************************************)
EXTENDS Integers, Sequences, FiniteSets, TLC

VARIABLES
    args,       \* main: the process arguments
    dict,       \* the state of the file words.txt
    pc,         \* position in main / run
    config,     \* the Config that Config::new returned
    password,   \* run: Vec<String> password, each element tagged with its origin
    c_words,    \* run: Vec<bool> c_words
    c,          \* run: remaining capitalizations
    n,          \* run: remaining digit insertions
    s,          \* run: remaining symbol insertions
    capOps,     \* history: capOps[r+1] is the number of times capitalize was applied at index r
    dictReads,  \* history: number of times words.txt was opened
    stdout,     \* the lines printed with println!
    stderr,     \* the panic messages
    exitCode    \* the exit code of the process: 0 unless an exit or a panic sets it

vars == <<args, dict, pc, config, password, c_words, c, n, s, capOps,
          dictReads, stdout, stderr, exitCode>>

----------------------------------------------------------------------------
(* Bounds *)

\* at most MaxOpts option groups (a token, or a count flag with its integer)
MaxOpts == 2
\* integer argument tokens are "0" .. "MaxVal"
MaxVal == 2

----------------------------------------------------------------------------
(* Program constants *)

DefaultWords == 4
ExitFailure == 1
ExitPanic == 101
NumDigits == 10

\* rand_symbol: the string "~!@#$%^&*.:;"
symbols == <<"~", "!", "@", "#", "$", "%", "^", "&", "*", ".", ":", ";">>

----------------------------------------------------------------------------
(* Inputs *)

IntToks == {ToString(v) : v \in 0..MaxVal}
CountFlagToks == {"-w", "--words", "-c", "-n", "-s"}
Tokens == CountFlagToks \cup {"-h", "--help", "-d", "-x"} \cup IntToks

OptGroups == {<<t>> : t \in Tokens}
             \cup {<<f, v>> : f \in CountFlagToks, v \in IntToks}

RECURSIVE ArgTails(_)
ArgTails(k) ==
    IF k = 0 THEN {<<>>}
    ELSE LET shorter == ArgTails(k - 1)
         IN  shorter \cup {g \o t : g \in OptGroups, t \in shorter}

ArgLists == {<<"xkcdpwgen">> \o t : t \in ArgTails(MaxOpts)}

\* words.txt: File::open fails (absent, no permission), a line cannot be read
\* (an I/O error, invalid UTF-8), the file has no lines, or it is a word list
WordList == << <<"a", "b">> >>
Dicts == { [opens |-> FALSE, readable |-> TRUE,  lines |-> <<>>],
           [opens |-> TRUE,  readable |-> FALSE, lines |-> WordList],
           [opens |-> TRUE,  readable |-> TRUE,  lines |-> <<>>],
           [opens |-> TRUE,  readable |-> TRUE,  lines |-> WordList] }

\* the values the random draws of rand_digit and rand_symbol are sampled from
DigitDraws == {0}
SymbolDraws == {0}

----------------------------------------------------------------------------
(* Helpers *)

Min(a, b) == IF a <= b THEN a ELSE b

\* the source's 0-based args[i]
Arg(a, i) == a[i + 1]

\* str::parse::<usize>: a decimal numeral parses, anything else is an error
parse_usize(tok) ==
    IF \E v \in 0..MaxVal : ToString(v) = tok
    THEN [ok |-> TRUE, val |-> CHOOSE v \in 0..MaxVal : ToString(v) = tok]
    ELSE [ok |-> FALSE, val |-> 0]

Line(kind, label, num, chars) ==
    [kind |-> kind, label |-> label, num |-> num, chars |-> chars]

----------------------------------------------------------------------------
(* Config::new *)

DefaultConfig ==
    [words |-> DefaultWords, caps |-> 0, nums |-> 0, syms |-> 0,
     help |-> FALSE, debug |-> FALSE]

\* Ok(Config {..})
ParseOk(cf) == [ok |-> TRUE, cfg |-> cf, err |-> <<>>, out |-> <<>>]

\* Err("<msg><opt>"): the message literal, split where it names an option
ParseErr(msg, opt) ==
    [ok |-> FALSE, cfg |-> DefaultConfig, err |-> <<msg, opt>>, out |-> <<>>]

\* println!("invalid arg: {}", args[i]); Err("invalid argument")
InvalidArg(tok) ==
    [ok |-> FALSE, cfg |-> DefaultConfig, err |-> <<"invalid argument", "">>,
     out |-> <<Line("invalid arg", tok, 0, <<>>)>>]

\* caps = cmp::min(words, c), with the words value parsed so far
ClampCaps(words, cv) == Min(words, cv)

\* CountOption with a missing parameter read as 0 instead of an error
CountOptionLenient(a, i, opt) ==
    IF i + 1 < Len(a)
    THEN LET p == parse_usize(Arg(a, i + 1))
         IN  IF p.ok THEN [ok |-> TRUE, val |-> p.val, err |-> <<>>]
             ELSE [ok |-> FALSE, val |-> 0,
                   err |-> <<"invalid parameter for option ", opt>>]
    ELSE [ok |-> TRUE, val |-> 0, err |-> <<>>]

\* the body of one count-flag case: the parameter is looked up and parsed
CountOption(a, i, opt) ==
    IF i + 1 < Len(a)
    THEN LET p == parse_usize(Arg(a, i + 1))
         IN  IF p.ok THEN [ok |-> TRUE, val |-> p.val, err |-> <<>>]
             ELSE [ok |-> FALSE, val |-> 0,
                   err |-> <<"invalid parameter for option ", opt>>]
    ELSE [ok |-> FALSE, val |-> 0, err |-> <<"no parameter for option ", opt>>]

\* the while loop of Config::new from index i with the values read so far
RECURSIVE ParseLoop(_, _, _)
ParseLoop(a, i, cf) ==
    IF ~(i < Len(a)) THEN ParseOk(cf)
    ELSE LET t == Arg(a, i) IN
      IF t = "-w" \/ t = "--words" THEN
          LET o == CountOption(a, i, "-w")
          IN  IF o.ok THEN ParseLoop(a, i + 2, [cf EXCEPT !.words = o.val])
              ELSE ParseErr(o.err[1], o.err[2])
      ELSE IF t = "-c" \/ t = "--caps" THEN
          LET o == CountOption(a, i, "-c")
          IN  IF o.ok
              THEN ParseLoop(a, i + 2,
                             [cf EXCEPT !.caps = ClampCaps(cf.words, o.val)])
              ELSE ParseErr(o.err[1], o.err[2])
      ELSE IF t = "-n" \/ t = "--numbers" THEN
          LET o == CountOption(a, i, "-n")
          IN  IF o.ok THEN ParseLoop(a, i + 2, [cf EXCEPT !.nums = o.val])
              ELSE ParseErr(o.err[1], o.err[2])
      ELSE IF t = "-s" \/ t = "--symbols" THEN
          LET o == CountOption(a, i, "-s")
          IN  IF o.ok THEN ParseLoop(a, i + 2, [cf EXCEPT !.syms = o.val])
              ELSE ParseErr(o.err[1], o.err[2])
      ELSE IF t = "-h" \/ t = "--help" THEN
          ParseLoop(a, i + 1, [cf EXCEPT !.help = TRUE])
      ELSE IF t = "-d" \/ t = "--debug" THEN
          ParseLoop(a, i + 1, [cf EXCEPT !.debug = TRUE])
      ELSE InvalidArg(t)

Config_new(a) ==
    IF Len(a) = 1 THEN ParseOk(DefaultConfig)
    ELSE ParseLoop(a, 1, DefaultConfig)

----------------------------------------------------------------------------
(* capitalize, join, insert *)

\* char::to_uppercase on the characters of the word list
to_uppercase(ch) ==
    CASE ch = "a" -> <<"A">>
      [] ch = "b" -> <<"B">>
      [] OTHER    -> <<ch>>

capitalize(str) ==
    IF str = <<>> THEN <<>>
    ELSE to_uppercase(Head(str)) \o Tail(str)

\* Insert that assigns to slot r instead of shifting the tail
InsertOverwrite(v, r, x) ==
    IF r < Len(v) THEN [v EXCEPT ![r + 1] = x] ELSE Append(v, x)

\* Insert as a push followed by a swap of slot r with the last slot
InsertSwap(v, r, x) ==
    IF r < Len(v) THEN [Append(v, v[r + 1]) EXCEPT ![r + 1] = x] ELSE Append(v, x)

\* Vec::insert(r, x) with the source's 0-based r
Insert(v, r, x) == SubSeq(v, 1, r) \o <<x>> \o SubSeq(v, r + 1, Len(v))

\* password.join("")
RECURSIVE join(_)
join(v) == IF v = <<>> THEN <<>> ELSE Head(v).text \o join(Tail(v))

\* an element of password: the String, tagged with its origin
Token(kind, ord, text) == [kind |-> kind, ord |-> ord, text |-> text]

usage == Line("usage", "usage: xkcdpwgen [-h] [-w WORDS] [-c CAPS] [-n NUMBERS] [-s SYMBOLS]", 0, <<>>)

DebugLines(cf) ==
    << Line("debug", "--DEBUG--", 0, <<>>),
       Line("debug", "  words: ", cf.words, <<>>),
       Line("debug", "  caps: ", cf.caps, <<>>),
       Line("debug", "  nums: ", cf.nums, <<>>),
       Line("debug", "  syms: ", cf.syms, <<>>) >>

----------------------------------------------------------------------------
(* choose_word, rand_digit, rand_symbol *)

\* choose_word that yields an empty word for a file without lines
choose_word_lenient(d) ==
    IF ~d.opens THEN {[status |-> "exit", word |-> <<>>]}
    ELSE IF ~d.readable
    THEN {[status |-> "panic: Couldn't read line", word |-> <<>>]}
    ELSE IF d.lines = <<>>
    THEN {[status |-> "ok", word |-> <<>>]}
    ELSE {[status |-> "ok", word |-> d.lines[k]] : k \in 1..Len(d.lines)}

\* the outcomes of one call of choose_word on the file state d
choose_word(d) ==
    IF ~d.opens THEN {[status |-> "exit", word |-> <<>>]}
    ELSE IF ~d.readable
    THEN {[status |-> "panic: Couldn't read line", word |-> <<>>]}
    ELSE IF d.lines = <<>>
    THEN {[status |-> "panic: File has no lines", word |-> <<>>]}
    ELSE {[status |-> "ok", word |-> d.lines[k]] : k \in 1..Len(d.lines)}

\* char::from_digit(d, 10)
from_digit(d) == ToString(d)

rand_digit == {from_digit(d) : d \in DigitDraws \cap (0..(NumDigits - 1))}

rand_symbol == {symbols[k + 1] : k \in SymbolDraws \cap (0..(Len(symbols) - 1))}

----------------------------------------------------------------------------
(* State machine *)

Init ==
    /\ args \in ArgLists
    /\ dict \in Dicts
    /\ pc = "main"
    /\ config = DefaultConfig
    /\ password = <<>>
    /\ c_words = <<>>
    /\ c = 0
    /\ n = 0
    /\ s = 0
    /\ capOps = <<>>
    /\ dictReads = 0
    /\ stdout = <<>>
    /\ stderr = <<>>
    /\ exitCode = 0

\* main: Config::new(&args), and the exit on its error
Main ==
    /\ pc = "main"
    /\ LET res == Config_new(args)
       IN  IF res.ok
           THEN /\ config' = res.cfg
                /\ pc' = "run"
                /\ UNCHANGED <<stdout, exitCode>>
           ELSE /\ stdout' = res.out \o
                       <<Line("parse error", "Problem parsing arguments: ", 0, res.err)>>
                /\ exitCode' = ExitFailure
                /\ pc' = "exit"
                /\ UNCHANGED config
    /\ UNCHANGED <<args, dict, password, c_words, c, n, s, capOps, dictReads, stderr>>

\* RunHelp without the return: the usage text, then the generation
RunHelpNoReturn ==
    /\ pc = "run"
    /\ config.help
    /\ stdout' = Append(stdout, usage)
    /\ password' = <<>>
    /\ pc' = "words"
    /\ UNCHANGED <<args, dict, config, c_words, c, n, s, capOps,
                   dictReads, stderr, exitCode>>

\* run: the help branch
RunHelp ==
    /\ pc = "run"
    /\ config.help
    /\ stdout' = Append(stdout, usage)
    /\ pc' = "exit"
    /\ UNCHANGED <<args, dict, config, password, c_words, c, n, s, capOps,
                   dictReads, stderr, exitCode>>

\* run: the debug output and the empty password vector (the sum
\* words + nums + syms of with_capacity stays far below the usize range here)
RunStart ==
    /\ pc = "run"
    /\ ~config.help
    /\ stdout' = stdout \o (IF config.debug THEN DebugLines(config) ELSE <<>>)
    /\ password' = <<>>
    /\ pc' = "words"
    /\ UNCHANGED <<args, dict, config, c_words, c, n, s, capOps, dictReads,
                   stderr, exitCode>>

\* run: one iteration of the word loop
PushWord ==
    /\ pc = "words"
    /\ Len(password) < config.words
    /\ dictReads' = dictReads + 1
    /\ \E o \in choose_word(dict) :
         IF o.status = "ok"
         THEN /\ password' = Append(password, Token("word", Len(password) + 1, o.word))
              /\ UNCHANGED <<pc, stdout, stderr, exitCode>>
         ELSE IF o.status = "exit"
         THEN /\ stdout' = Append(stdout, Line("read error", "Problem reading words.txt: ", 0, <<>>))
              /\ exitCode' = ExitFailure
              /\ pc' = "exit"
              /\ UNCHANGED <<password, stderr>>
         ELSE /\ stderr' = Append(stderr, o.status)
              /\ exitCode' = ExitPanic
              /\ pc' = "exit"
              /\ UNCHANGED <<password, stdout>>
    /\ UNCHANGED <<args, dict, config, c_words, c, n, s, capOps>>

\* run: the word loop is over; c and c_words are set up
WordsDone ==
    /\ pc = "words"
    /\ ~(Len(password) < config.words)
    /\ c' = config.caps
    /\ c_words' = [i \in 1..config.words |-> FALSE]
    /\ capOps' = [i \in 1..config.words |-> 0]
    /\ pc' = "caps"
    /\ UNCHANGED <<args, dict, config, password, n, s, dictReads,
                   stdout, stderr, exitCode>>

\* CapStep without the test of c_words[r]
CapStepNoCheck ==
    /\ pc = "caps"
    /\ c > 0
    /\ \E r \in 0..(config.words - 1) :
         /\ c_words' = [c_words EXCEPT ![r + 1] = TRUE]
         /\ password' = [password EXCEPT ![r + 1].text = capitalize(@)]
         /\ capOps' = [capOps EXCEPT ![r + 1] = @ + 1]
         /\ c' = c - 1
    /\ UNCHANGED <<args, dict, pc, config, n, s, dictReads, stdout, stderr, exitCode>>

\* run: one iteration of the capitalization loop, with a drawable index
CapStep ==
    /\ pc = "caps"
    /\ c > 0
    /\ \E r \in 0..(config.words - 1) :
         IF c_words[r + 1]
         THEN UNCHANGED <<password, c_words, c, capOps>>
         ELSE /\ c_words' = [c_words EXCEPT ![r + 1] = TRUE]
              /\ password' = [password EXCEPT ![r + 1].text = capitalize(@)]
              /\ capOps' = [capOps EXCEPT ![r + 1] = @ + 1]
              /\ c' = c - 1
    /\ UNCHANGED <<args, dict, pc, config, n, s, dictReads, stdout, stderr, exitCode>>

\* run: gen_range(0..config.words) over the empty range panics
CapPanic ==
    /\ pc = "caps"
    /\ c > 0
    /\ config.words = 0
    /\ stderr' = Append(stderr, "panic: cannot sample empty range")
    /\ exitCode' = ExitPanic
    /\ pc' = "exit"
    /\ UNCHANGED <<args, dict, config, password, c_words, c, n, s, capOps,
                   dictReads, stdout>>

\* run: the capitalization loop is over
CapsDone ==
    /\ pc = "caps"
    /\ ~(c > 0)
    /\ n' = config.nums
    /\ pc' = "nums"
    /\ UNCHANGED <<args, dict, config, password, c_words, c, s, capOps,
                   dictReads, stdout, stderr, exitCode>>

\* run: one iteration of the digit loop
InsertDigit ==
    /\ pc = "nums"
    /\ n > 0
    /\ \E r \in 0..Len(password), d \in rand_digit :
         password' = Insert(password, r, Token("digit", 0, <<d>>))
    /\ n' = n - 1
    /\ UNCHANGED <<args, dict, pc, config, c_words, c, s, capOps, dictReads,
                   stdout, stderr, exitCode>>

\* run: the digit loop is over
NumsDone ==
    /\ pc = "nums"
    /\ ~(n > 0)
    /\ s' = config.syms
    /\ pc' = "syms"
    /\ UNCHANGED <<args, dict, config, password, c_words, c, n, capOps,
                   dictReads, stdout, stderr, exitCode>>

\* run: one iteration of the symbol loop
InsertSymbol ==
    /\ pc = "syms"
    /\ s > 0
    /\ \E r \in 0..Len(password), y \in rand_symbol :
         password' = Insert(password, r, Token("symbol", 0, <<y>>))
    /\ s' = s - 1
    /\ UNCHANGED <<args, dict, pc, config, c_words, c, n, capOps, dictReads,
                   stdout, stderr, exitCode>>

\* PrintPassword with one println! per token instead of the join
PrintTokens ==
    /\ pc = "syms"
    /\ ~(s > 0)
    /\ stdout' = stdout \o [i \in 1..Len(password) |->
                               Line("password", "", 0, password[i].text)]
    /\ pc' = "exit"
    /\ UNCHANGED <<args, dict, config, password, c_words, c, n, s, capOps,
                   dictReads, stderr, exitCode>>

\* run: the final println! and the return to main
PrintPassword ==
    /\ pc = "syms"
    /\ ~(s > 0)
    /\ stdout' = Append(stdout, Line("password", "", 0, join(password)))
    /\ pc' = "exit"
    /\ UNCHANGED <<args, dict, config, password, c_words, c, n, s, capOps,
                   dictReads, stderr, exitCode>>

Next ==
    \/ Main
    \/ RunHelp
    \/ RunStart
    \/ PushWord
    \/ WordsDone
    \/ CapStep
    \/ CapPanic
    \/ CapsDone
    \/ InsertDigit
    \/ NumsDone
    \/ InsertSymbol
    \/ PrintPassword

Spec == Init /\ [][Next]_vars

----------------------------------------------------------------------------
(* Vocabulary of the properties *)

KnownFlags == {"-w", "--words", "-c", "--caps", "-n", "--numbers",
               "-s", "--symbols", "-h", "--help", "-d", "--debug"}
CountFlags == {"-w", "--words", "-c", "--caps", "-n", "--numbers", "-s", "--symbols"}

\* the option a flag token stands for, by its short name
ShortName(tok) ==
    CASE tok = "--words"   -> "-w"
      [] tok = "--caps"    -> "-c"
      [] tok = "--numbers" -> "-n"
      [] tok = "--symbols" -> "-s"
      [] tok = "--help"    -> "-h"
      [] tok = "--debug"   -> "-d"
      [] OTHER             -> tok

IsIntegerTok(tok) == tok \in IntToks

\* the argument at 0-based index i is an unknown flag (anything but a known
\* flag or the integer standing behind a count flag), a count flag with no
\* following argument, or a count flag followed by a non-integer
Offends(a, i) ==
    \/ /\ Arg(a, i) \notin KnownFlags
       /\ ~(IsIntegerTok(Arg(a, i)) /\ i > 1 /\ Arg(a, i - 1) \in CountFlags)
    \/ /\ Arg(a, i) \in CountFlags
       /\ i = Len(a) - 1
    \/ /\ Arg(a, i) \in CountFlags
       /\ i < Len(a) - 1
       /\ ~IsIntegerTok(Arg(a, i + 1))

ArgError(a) == \E i \in 1..(Len(a) - 1) : Offends(a, i)

HelpRequested(a) == \E i \in 1..(Len(a) - 1) : Arg(a, i) \in {"-h", "--help"}

LastLineIs(kind) == stdout # <<>> /\ stdout[Len(stdout)].kind = kind

ParseFailed == pc = "exit" /\ LastLineIs("parse error")

\* Config::new has returned Ok
Resolved == pc # "main" /\ ~ParseFailed

\* the final println! of run has happened
Printed == pc = "exit" /\ LastLineIs("password")

PassphraseLines == {i \in 1..Len(stdout) : stdout[i].kind = "password"}

\* the option names the printed diagnostics mention
NamedInDiagnostics ==
    {stdout[i].label : i \in {j \in 1..Len(stdout) : stdout[j].kind = "invalid arg"}}
    \cup {stdout[i].chars[2] : i \in {j \in 1..Len(stdout) : stdout[j].kind = "parse error"}}

DictUsable == dict.opens /\ dict.readable /\ dict.lines # <<>>

----------------------------------------------------------------------------
(* C1 *)

\* C1: whenever Config::new succeeds, the resolved configuration has
\* caps <= words.
C1_CapsLeWords == Resolved => config.caps <= config.words

----------------------------------------------------------------------------
(* C2 *)

\* C2: for a resolved configuration without help and a readable non-empty
\* dictionary, run never fails: no panic (an index draw over an empty range)
\* and no failure exit.
C2_RunNeverFails ==
    (Resolved /\ ~config.help /\ DictUsable) => exitCode = 0

----------------------------------------------------------------------------
(* C3 *)

\* C3: when run reaches the final print, the password sequence holds
\* words + nums + syms tokens.
C3_Length ==
    ((pc = "syms" /\ s = 0) \/ Printed)
        => Len(password) = config.words + config.nums + config.syms

C3_Witness ==
    /\ Printed
    /\ config.words > 0 /\ config.nums > 1 /\ config.syms > 0

----------------------------------------------------------------------------
(* C4 *)

\* the capitalization loop has just ended
CapsFinished == pc = "caps" /\ c = 0

\* C4: when the capitalization step finishes, exactly min(caps, words) of the
\* word positions have been capitalized, each by one capitalization operation
\* only, and they are the positions marked in c_words.
C4_CapCount ==
    CapsFinished =>
        /\ DOMAIN capOps = 1..config.words
        /\ Cardinality({i \in 1..config.words : capOps[i] >= 1})
               = Min(config.caps, config.words)
        /\ \A i \in 1..config.words : capOps[i] <= 1 /\ (c_words[i] <=> capOps[i] = 1)

C4_Witness ==
    CapsFinished /\ config.caps >= 2 /\ config.caps < config.words

----------------------------------------------------------------------------
(* C5 *)

\* C5: an argument list with an unknown flag, a count flag without a following
\* argument or a count flag followed by a non-integer never gets past
\* Config::new: the dictionary is never read, no passphrase is printed, and
\* the process ends with a non-zero exit code and a diagnostic that names an
\* offending flag.
C5_ArgErrorFatal ==
    ArgError(args) =>
        /\ pc \in {"main", "exit"}
        /\ dictReads = 0
        /\ PassphraseLines = {}
        /\ pc = "exit" =>
             /\ exitCode # 0
             /\ \E i \in 1..(Len(args) - 1) :
                  Offends(args, i) /\ ShortName(Arg(args, i)) \in NamedInDiagnostics

C5_Witness ==
    /\ pc = "exit"
    /\ ArgError(args)
    /\ Len(args) >= 4
    /\ Arg(args, 1) \in CountFlags /\ IsIntegerTok(Arg(args, 2))
    /\ exitCode = ExitFailure

----------------------------------------------------------------------------
(* C6 *)

\* C6: an accepted argument list that includes -h or --help leads to the usage
\* text as the only output and exit code 0; no word is drawn, the dictionary is
\* not read and no passphrase is printed.
C6_HelpOnly ==
    (Resolved /\ HelpRequested(args)) =>
        /\ pc \in {"run", "exit"}
        /\ dictReads = 0
        /\ password = <<>>
        /\ PassphraseLines = {}
        /\ pc = "exit" => (stdout = <<usage>> /\ exitCode = 0)

C6_Witness ==
    /\ pc = "exit"
    /\ HelpRequested(args)
    /\ stdout = <<usage>>
    /\ config.words # DefaultWords \/ config.nums > 0 \/ config.syms > 0 \/ config.debug

----------------------------------------------------------------------------
(* C7 *)

----------------------------------------------------------------------------
(* C8 *)

\* C8: when a -c flag carries a value above the resolved words value W,
\* Config::new resolves the argument list as it resolves the list with that
\* value replaced by W.
C8_ClampIdempotent ==
    Resolved =>
        \A j \in 1..(Len(args) - 2) :
            (/\ Arg(args, j) \in {"-c", "--caps"}
             /\ parse_usize(Arg(args, j + 1)).val > config.words)
            => Config_new([args EXCEPT ![j + 2] = ToString(config.words)]).cfg = config

----------------------------------------------------------------------------
(* C9 *)

\* C9 as stated: a run that prints the passphrase and exits with code 0 has
\* written exactly one line, the passphrase, debug requested or not.
C9_OneLine ==
    (Printed /\ exitCode = 0) =>
        Len(stdout) = 1 /\ stdout[1].kind = "password"

\* C9 amended: such a run writes the passphrase exactly once, as the last
\* line; without debug it is the only line, with debug it comes after the five
\* debug lines.
C9_OneLineAfterDebug ==
    (Printed /\ exitCode = 0) =>
        /\ PassphraseLines = {Len(stdout)}
        /\ stdout[Len(stdout)].chars = join(password)
        /\ Len(stdout) = (IF config.debug THEN 6 ELSE 1)
        /\ \A i \in 1..(Len(stdout) - 1) : stdout[i].kind = "debug"

C9_Witness ==
    Printed /\ exitCode = 0 /\ config.debug /\ Len(password) >= 2

----------------------------------------------------------------------------
(* C10 *)

IsWord(tok) == tok.kind = "word"

WordOrds(v) == LET w == SelectSeq(v, IsWord) IN [i \in 1..Len(w) |-> w[i].ord]

\* the word tokens stand in the order they were drawn
C10_WordOrder ==
    (pc \in {"caps", "nums", "syms"} \/ Printed)
        => WordOrds(password) = [i \in 1..config.words |-> i]

\* a step of the capitalization, digit or symbol loop leaves the sequence as
\* it is, changes the text of tokens only, or inserts one token at an index in
\* [0, length] with the tokens before it in place and those after it moved up
\* by one
C10_Step ==
    pc \in {"caps", "nums", "syms"} =>
        \/ password' = password
        \/ /\ pc = "caps"
           /\ Len(password') = Len(password)
           /\ \A i \in 1..Len(password) :
                password'[i].kind = password[i].kind /\ password'[i].ord = password[i].ord
        \/ /\ pc \in {"nums", "syms"}
           /\ Len(password') = Len(password) + 1
           /\ \E r \in 0..Len(password) :
                /\ \A i \in 1..r : password'[i] = password[i]
                /\ password'[r + 1].kind = (IF pc = "nums" THEN "digit" ELSE "symbol")
                /\ \A i \in (r + 1)..Len(password) : password'[i + 1] = password[i]

====
